---- MODULE Spec2Model ----
(***************************************************************************)
(* Projectile_cannon.py: simulate_projectile (fixed-step Euler integration *)
(* with impact interpolation) and iterative_aim (closed-loop angle         *)
(* correction).                                                            *)
(*                                                                         *)
(* Number representation.  Python floats are modelled in fixed point:      *)
(*   lengths      micrometres                 (1 m      = 1000000)         *)
(*   velocities   micrometres per centisecond (1 m/s    = 10000)           *)
(*   gravity      micrometres per cs^2        (9.81 m/s^2 = 981)           *)
(*   angles       centidegrees                (85 deg   = 8500)            *)
(*   sin, cos     thousandths (TrigOne), frac in 1/FracOne,                *)
(*   learn_rate, log1p    hundredths (LogOne)                              *)
(* The three floats that decide the loop guard `t < max_time` (t, dt,      *)
(* max_time) are modelled as IEEE-754 binary64 values, bit for bit: a time *)
(* is a count of quanta of 2^-59 s held in three limbs <<h, m, l>> of 21   *)
(* bits, and `t += dt` rounds the exact sum to 53 significant bits, ties   *)
(* to even.  The dynamics read dt through Ticks(dt), its value in cs.      *)
(***************************************************************************)
EXTENDS Integers, Sequences, FiniteSets

(* ------------------------------------------------------------------------ *)
(* binary64 times                                                           *)
(* ------------------------------------------------------------------------ *)

LimbBase == 2^21

\* carry propagation: every limb back into 0 .. LimbBase-1
Norm(a) ==
    LET m1 == a[2] + a[3] \div LimbBase
    IN  <<a[1] + m1 \div LimbBase, m1 % LimbBase, a[3] % LimbBase>>

RECURSIVE BitLen(_)
BitLen(n) == IF n = 0 THEN 0 ELSE 1 + BitLen(n \div 2)

\* number of significant bits of the time a
TBitLen(a) ==
    IF a[1] > 0 THEN 42 + BitLen(a[1])
    ELSE IF a[2] > 0 THEN 21 + BitLen(a[2])
    ELSE BitLen(a[3])

\* a rounded to the 53-bit significand of a binary64, round-half-to-even
Round53(a) ==
    LET q == TBitLen(a) - 53
    IN  IF q <= 0 THEN a
        ELSE LET P    == 2^q
                 r    == a[3] % P
                 base == a[3] - r
                 up   == \/ 2 * r > P
                         \/ 2 * r = P /\ (base \div P) % 2 = 1
             IN  Norm(<<a[1], a[2], base + (IF up THEN P ELSE 0)>>)

\* the float sum a + b of two non-negative times
FAdd(a, b) == Round53(Norm(<<a[1] + b[1], a[2] + b[2], a[3] + b[3]>>))

\* the float comparison a < b
TLess(a, b) ==
    \/ a[1] < b[1]
    \/ a[1] = b[1] /\ a[2] < b[2]
    \/ a[1] = b[1] /\ a[2] = b[2] /\ a[3] < b[3]

TZero == <<0, 0, 0>>

\* the value of a time in centiseconds, to the nearest (a * 100 / 2^59)
Ticks(a) == (a[1] * 100 + 2^16) \div 2^17

\* the float literals used as times: the binary64 nearest to each decimal
T_0_01 == <<1310, 1509949, 922747>>
T_0_1  == <<13107, 419430, 838864>>
T_0_25 == <<32768, 0, 0>>
T_0_5  == <<65536, 0, 0>>
T_1_0  == <<131072, 0, 0>>
T_10_0 == <<1310720, 0, 0>>

(* ------------------------------------------------------------------------ *)
(* math.sin, math.cos, math.log1p, np.sign, abs                             *)
(* ------------------------------------------------------------------------ *)

TrigOne == 1000
LogOne == 100
FracOne == 2^8

Abs(n) == IF n < 0 THEN -n ELSE n

\* np.sign
Sign(n) == IF n > 0 THEN 1 ELSE IF n < 0 THEN -1 ELSE 0

\* sin of a centidegrees in 0 .. 18000, in thousandths: Bhaskara's rational
\* approximation 4a(180-a) / (40500 - a(180-a)), absolute error below 0.002
SinHalfTurn(a) ==
    LET p == a * (18000 - a)
    IN  (4 * p) \div ((405000000 - p) \div TrigOne)

\* math.sin(math.radians(a)) for any a in centidegrees
Sin(a) ==
    LET r == a % 36000
    IN  IF r <= 18000 THEN SinHalfTurn(r) ELSE -SinHalfTurn(r - 18000)

\* math.cos(math.radians(a))
Cos(a) == Sin(a + 9000)

\* fixed-point product a * b / one, rounded toward zero
MulFix(a, b, one) == Sign(a) * Sign(b) * ((Abs(a) * Abs(b)) \div one)

\* math.log1p(m) for a length m >= 0 in micrometres read as metres, in
\* hundredths: ln(z) = log2(z) * ln 2, log2 taken piecewise linear between
\* powers of two
Log1p(m) ==
    LET z == 1000 + m \div 1000
        k == BitLen(z \div 1000) - 1
        f == z \div 2^k
    IN  ((k * 1000 + f - 1000) * 693) \div 10000

(* ------------------------------------------------------------------------ *)
(* state                                                                    *)
(* ------------------------------------------------------------------------ *)

VARIABLES
    \* simulate_projectile: its arguments
    speed, angle_deg, dt, g, y0, max_time,
    \* simulate_projectile: its locals
    t, x, y, vx, vy, times, x_positions, y_positions, y_velocities,
    y_prev, x_prev, frac, impact_x,
    \* simulate_projectile: control ("idle", "loop", "returned", "raised"),
    \* whether the loop was left by `break`, and the loop bodies executed
    pc_sim, broke, steps,
    \* iterative_aim: its arguments (speed is the one above)
    target_x, initial_angle, learn_rate, max_iters, tol,
    \* iterative_aim: its locals
    angle, history, i, xs, ys, best, warned, ret,
    \* iterative_aim: control ("idle", "loop", "sim", "post", "done",
    \* "raised") and the simulate_projectile calls of its correction loop
    pc_aim, ncalls

simArgs == <<speed, angle_deg, dt, g, y0, max_time>>
simLocals == <<t, x, y, vx, vy, times, x_positions, y_positions, y_velocities,
               y_prev, x_prev, frac, impact_x>>
simCtl == <<pc_sim, broke, steps>>
aimArgs == <<target_x, initial_angle, learn_rate, max_iters, tol>>
aimLocals == <<angle, history, i, xs, ys, best, warned, ret>>
aimCtl == <<pc_aim, ncalls>>
vars == <<simArgs, simLocals, simCtl, aimArgs, aimLocals, aimCtl>>

(* ------------------------------------------------------------------------ *)
(* simulate_projectile                                                      *)
(* ------------------------------------------------------------------------ *)

\* defaults of simulate_projectile's parameters
DefaultDt == T_0_01
DefaultG == 981
DefaultY0 == 0
DefaultMaxTime == T_10_0

\* a run with dt = 0 never leaves the loop; the model follows it this far
MaxSteps == 12

\* lines 29-40: the locals at the first evaluation of the loop guard
SimEnter(s, a, d, gr, h, mt) ==
    /\ speed' = s /\ angle_deg' = a /\ dt' = d /\ g' = gr /\ y0' = h
    /\ max_time' = mt
    /\ t' = TZero
    /\ x' = 0
    /\ y' = h
    /\ vx' = MulFix(s, Cos(a), TrigOne)
    /\ vy' = MulFix(s, Sin(a), TrigOne)
    /\ times' = <<TZero>>
    /\ x_positions' = <<0>>
    /\ y_positions' = <<h>>
    /\ y_velocities' = <<MulFix(s, Sin(a), TrigOne)>>
    /\ y_prev' = 0 /\ x_prev' = 0 /\ frac' = 0 /\ impact_x' = 0
    /\ pc_sim' = "loop" /\ broke' = FALSE /\ steps' = 0

\* line 43: the loop guard
LoopCond == TLess(t, max_time) /\ y >= 0

\* line 52 with the fraction measured from the end of the step
Frac_FromStepEnd(yp, yn) == ((-yn) * FracOne) \div (yp - yn)

\* line 52: frac = y_prev / (y_prev - y)
Frac(yp, yn) == (yp * FracOne) \div (yp - yn)

\* line 53: impact_x = x_prev + frac * (x - x_prev)
ImpactX(xp, fr, xn) == xp + (fr * (xn - xp)) \div FracOne

\* lines 54, 55: the last recorded position becomes v
SetLast(seq, v) == [seq EXCEPT ![Len(seq)] = v]

\* line 55 left out: the last recorded height stays
GroundY_Kept(seq) == seq

\* line 55: y_positions[-1] = 0
GroundY(seq) == SetLast(seq, 0)

\* lines 44-60: one execution of the loop body
SimLoop ==
    /\ pc_sim = "loop"
    /\ LoopCond
    /\ Ticks(dt) = 0 => steps < MaxSteps
    /\ LET t1  == FAdd(t, dt)
           x1  == x + Ticks(dt) * vx
           vy1 == vy + Ticks(dt) * (-g)
           y1  == y + Ticks(dt) * vy1
           yp  == y_positions[Len(y_positions)]
           xp  == x_positions[Len(x_positions)]
       IN  /\ t' = t1 /\ x' = x1 /\ vy' = vy1 /\ y' = y1
           /\ steps' = steps + 1
           /\ IF y1 < 0
              THEN /\ y_prev' = yp
                   /\ x_prev' = xp
                   /\ IF yp - y1 = 0
                      THEN \* ZeroDivisionError
                           /\ pc_sim' = "raised"
                           /\ UNCHANGED <<frac, impact_x, x_positions,
                                          y_positions, broke>>
                      ELSE /\ frac' = Frac(yp, y1)
                           /\ impact_x' = ImpactX(xp, Frac(yp, y1), x1)
                           /\ x_positions' =
                                SetLast(x_positions, ImpactX(xp, Frac(yp, y1), x1))
                           /\ y_positions' = GroundY(y_positions)
                           /\ broke' = TRUE
                           /\ pc_sim' = "returned"
                   /\ UNCHANGED <<times, y_velocities>>
              ELSE /\ times' = Append(times, t1)
                   /\ x_positions' = Append(x_positions, x1)
                   /\ y_positions' = Append(y_positions, y1)
                   /\ y_velocities' = Append(y_velocities, vy1)
                   /\ UNCHANGED <<y_prev, x_prev, frac, impact_x, broke, pc_sim>>
    /\ UNCHANGED <<simArgs, vx, aimArgs, aimLocals, aimCtl>>

\* lines 43, 61: the guard fails and the arrays are returned
SimReturn ==
    /\ pc_sim = "loop"
    /\ ~LoopCond
    /\ pc_sim' = "returned"
    /\ UNCHANGED <<simArgs, simLocals, broke, steps, aimArgs, aimLocals, aimCtl>>

(* ------------------------------------------------------------------------ *)
(* a direct call of simulate_projectile                                     *)
(* ------------------------------------------------------------------------ *)

Speeds == {0, 50000, 100000}
Angles == {-3000, 0, 4500, 9000, 13500}
Dts == {TZero, T_0_1, T_0_25}
Gravities == {0, 981}
Heights == {-200000, 0, 500000}
MaxTimes == {TZero, T_0_5, T_1_0}

NoAttempt == [try |-> 0, angle |-> 0, impact_x |-> 0, miss |-> 0]
NoReturn == [best_angle |-> 0, history |-> <<>>, best_abs_miss |-> 0]

AimIdle ==
    /\ target_x = 0 /\ initial_angle = 0 /\ learn_rate = 0 /\ max_iters = 0
    /\ tol = 0 /\ angle = 0 /\ history = <<>> /\ i = 0 /\ xs = <<>> /\ ys = <<>>
    /\ best = NoAttempt /\ warned = FALSE /\ ret = NoReturn
    /\ pc_aim = "idle" /\ ncalls = 0

Init ==
    /\ speed \in Speeds /\ angle_deg \in Angles /\ dt \in Dts
    /\ g \in Gravities /\ y0 \in Heights /\ max_time \in MaxTimes
    /\ t = TZero /\ x = 0 /\ y = y0
    /\ vx = MulFix(speed, Cos(angle_deg), TrigOne)
    /\ vy = MulFix(speed, Sin(angle_deg), TrigOne)
    /\ times = <<TZero>> /\ x_positions = <<0>> /\ y_positions = <<y0>>
    /\ y_velocities = <<vy>>
    /\ y_prev = 0 /\ x_prev = 0 /\ frac = 0 /\ impact_x = 0
    /\ pc_sim = "loop" /\ broke = FALSE /\ steps = 0
    /\ AimIdle

Next == SimLoop \/ SimReturn

Spec == Init /\ [][Next]_vars

(* ------------------------------------------------------------------------ *)
(* iterative_aim                                                            *)
(* ------------------------------------------------------------------------ *)

\* line 195: the range the updated angle is clamped to
MinAngle == 0
MaxAngle == 8500

\* the largest max_iters a modelled call is given
MaxIters == 3

Min(a, b) == IF a <= b THEN a ELSE b
Max(a, b) == IF a >= b THEN a ELSE b

\* line 191 without abs
Converged_Signed(miss, tolerance) == miss <= tolerance

\* line 191: abs(miss) <= tol
Converged(miss, tolerance) == Abs(miss) <= tolerance

\* line 194: learn_rate * np.sign(miss) * math.log1p(abs(miss))
Correction(rate, miss) == MulFix(rate * Sign(miss), Log1p(Abs(miss)), LogOne)

\* line 195 without the upper limit
Clamp_NoCeiling(a) == Max(MinAngle, a)

\* line 195: max(0.0, min(85.0, angle))
Clamp(a) == Max(MinAngle, Min(MaxAngle, a))

\* line 197 with a scan that lets a later equal key replace the earlier one
RECURSIVE MinScanLast(_, _, _)
MinScanLast(h, k, b) ==
    IF k > Len(h) THEN b
    ELSE MinScanLast(h, k + 1, IF Abs(h[k].miss) <= Abs(b.miss) THEN h[k] ELSE b)

BestOf_LastMin(h) == MinScanLast(h, 2, h[1])

\* line 197: min(history, key=lambda h: abs(h["miss"])): the scan keeps the
\* first element and replaces it only by a strictly smaller key
RECURSIVE MinScan(_, _, _)
MinScan(h, k, b) ==
    IF k > Len(h) THEN b
    ELSE MinScan(h, k + 1, IF Abs(h[k].miss) < Abs(b.miss) THEN h[k] ELSE b)

BestOf(h) == MinScan(h, 2, h[1])

\* line 198 without the test of the last miss
ShouldWarn_LenOnly(h, iters, tolerance) == Len(h) = iters

\* line 198: the condition of the non-convergence warning
ShouldWarn(h, iters, tolerance) ==
    Abs(h[Len(h)].miss) > tolerance /\ Len(h) = iters

\* line 187: the correction loop calls simulate_projectile(speed, angle)
AimCall ==
    /\ pc_aim = "loop"
    /\ i < max_iters
    /\ SimEnter(speed, angle, DefaultDt, DefaultG, DefaultY0, DefaultMaxTime)
    /\ pc_aim' = "sim"
    /\ ncalls' = ncalls + 1
    /\ UNCHANGED <<aimArgs, aimLocals>>

\* lines 187-196: the call has returned; the attempt is recorded and the loop
\* is left on convergence, or the angle is corrected for the next iteration
AimRecord ==
    /\ pc_aim = "sim"
    /\ pc_sim = "returned"
    /\ LET hit  == x_positions[Len(x_positions)]
           miss == target_x - hit
       IN  /\ xs' = x_positions
           /\ ys' = y_positions
           /\ history' = Append(history, [try |-> i + 1, angle |-> angle,
                                          impact_x |-> hit, miss |-> miss])
           /\ IF Converged(miss, tol)
              THEN /\ pc_aim' = "post"
                   /\ UNCHANGED <<angle, i>>
              ELSE /\ angle' = Clamp(angle + Correction(learn_rate, miss))
                   /\ i' = i + 1
                   /\ pc_aim' = "loop"
    /\ pc_sim' = "idle"
    /\ UNCHANGED <<simArgs, simLocals, broke, steps, aimArgs, best, warned,
                   ret, ncalls>>

\* lines 197-235: the best attempt, the warning and the return value; min()
\* of an empty history raises ValueError.  The plots in between draw the
\* recorded attempts again and change nothing that is returned.
AimFinish ==
    /\ \/ pc_aim = "post"
       \/ pc_aim = "loop" /\ i >= max_iters
    /\ IF history = <<>>
       THEN /\ pc_aim' = "raised"
            /\ UNCHANGED <<best, warned, ret>>
       ELSE /\ best' = BestOf(history)
            /\ warned' = ShouldWarn(history, max_iters, tol)
            /\ ret' = [best_angle |-> BestOf(history).angle,
                       history |-> history,
                       best_abs_miss |-> Abs(BestOf(history).miss)]
            /\ pc_aim' = "done"
    /\ UNCHANGED <<simArgs, simLocals, simCtl, aimArgs, angle, history, i, xs,
                   ys, ncalls>>

(* ------------------------------------------------------------------------ *)
(* a call of iterative_aim                                                  *)
(* ------------------------------------------------------------------------ *)

Targets == {1000000, 2000000}
InitialAngles == {-1000, 2500, 4500, 9500}
LearnRates == {-500, 5, 2000}
Tolerances == {50000, 500000}

\* calls at the default speed of 5 m/s
NearCalls ==
    [speed : {50000}, target_x : Targets, initial_angle : InitialAngles,
     learn_rate : LearnRates, max_iters : 0 .. MaxIters, tol : Tolerances]

\* iterative_aim(100.0, 500.0, 45.0, 0.05, n, 0.05), n = 1, 2: shots that are
\* still in the air after simulate_projectile's max_time
FarCalls ==
    [speed : {1000000}, target_x : {500000000}, initial_angle : {4500},
     learn_rate : {5}, max_iters : {1, 2}, tol : {50000}]

\* lines 249-256: the call of the script's controller test
DemoCalls ==
    {[speed |-> 250000, target_x |-> 45000000, initial_angle |-> 2500,
      learn_rate |-> 5, max_iters |-> 15, tol |-> 500000]}

SimIdle ==
    /\ angle_deg = 0 /\ dt = TZero /\ g = 0 /\ y0 = 0 /\ max_time = TZero
    /\ t = TZero /\ x = 0 /\ y = 0 /\ vx = 0 /\ vy = 0
    /\ times = <<>> /\ x_positions = <<>> /\ y_positions = <<>>
    /\ y_velocities = <<>>
    /\ y_prev = 0 /\ x_prev = 0 /\ frac = 0 /\ impact_x = 0
    /\ pc_sim = "idle" /\ broke = FALSE /\ steps = 0

\* lines 184, 185
InitAim ==
    /\ \E c \in NearCalls \cup FarCalls \cup DemoCalls :
          /\ speed = c.speed /\ target_x = c.target_x
          /\ initial_angle = c.initial_angle /\ learn_rate = c.learn_rate
          /\ max_iters = c.max_iters /\ tol = c.tol
          /\ angle = c.initial_angle
    /\ history = <<>> /\ i = 0 /\ xs = <<>> /\ ys = <<>>
    /\ best = NoAttempt /\ warned = FALSE /\ ret = NoReturn
    /\ pc_aim = "loop" /\ ncalls = 0
    /\ SimIdle

NextAim == AimCall \/ SimLoop \/ SimReturn \/ AimRecord \/ AimFinish

SpecAim == InitAim /\ [][NextAim]_vars

(* ------------------------------------------------------------------------ *)
(* properties of simulate_projectile (Spec)                                 *)
(* ------------------------------------------------------------------------ *)

Positive(a) == TLess(TZero, a)

Last(seq) == seq[Len(seq)]

NonDecreasing(seq) == \A k \in 1 .. Len(seq) - 1 : seq[k] <= seq[k + 1]

CeilDiv(a, b) == (a + b - 1) \div b

\* speed > 0, time_step > 0, gravity > 0, max_time > 0
ValidInput == speed > 0 /\ Positive(dt) /\ g > 0 /\ Positive(max_time)

\* C1: for valid input and initial_height >= 0, every recorded sample has
\* vertical position >= 0; once the call has returned, the last sample's
\* vertical position is exactly 0 if a step drove y below 0, and otherwise t
\* has reached max_time and the last sample's vertical position is >= 0.
C1_GroundedTrajectory ==
    (ValidInput /\ y0 >= 0) =>
        /\ \A k \in 1 .. Len(y_positions) : y_positions[k] >= 0
        /\ pc_sim = "returned" /\ y < 0 => Last(y_positions) = 0
        /\ pc_sim = "returned" /\ y >= 0 =>
               ~TLess(t, max_time) /\ Last(y_positions) >= 0

\* C1, its case: a flight of several recorded samples ended by an impact
C1_Witness ==
    /\ ValidInput /\ y0 >= 0
    /\ pc_sim = "returned" /\ y < 0
    /\ Len(y_positions) >= 3
    /\ y_positions[Len(y_positions) - 1] > 0
    /\ Last(y_positions) = 0

\* C6: when a step produces y < 0, one final sample (impact_x, 0) is appended
\* after the samples already recorded, which stay as they were.
C6_ImpactSampleAppended ==
    [][(pc_sim = "loop" /\ pc_sim' = "returned" /\ y' < 0) =>
           /\ x_positions' = Append(x_positions, impact_x')
           /\ y_positions' = Append(y_positions, 0)]_vars

\* C7: for speed > 0, time_step > 0, gravity > 0, initial_height >= 0 and
\* angle_deg in [0, 90], the interpolation never divides by zero; whenever it
\* has run, y_prev - y_now > 0, frac is in [0, 1), impact_x lies between
\* x_prev and x_now, and the horizontal positions never decrease.
C7_Interpolation ==
    (speed > 0 /\ Positive(dt) /\ g > 0 /\ y0 >= 0
        /\ angle_deg >= 0 /\ angle_deg <= 9000) =>
        /\ pc_sim # "raised"
        /\ broke => /\ y_prev - y > 0
                    /\ 0 <= frac /\ frac < FracOne
                    /\ x_prev <= impact_x /\ impact_x <= x
        /\ NonDecreasing(x_positions)

\* C7, its case: an interpolation from y_prev = 0 (a level shot from the
\* ground), and one strictly inside a step
C7_Witness ==
    /\ speed > 0 /\ Positive(dt) /\ g > 0 /\ y0 >= 0
    /\ angle_deg >= 0 /\ angle_deg <= 9000
    /\ pc_sim = "returned" /\ broke
    /\ \/ y_prev = 0 /\ frac = 0 /\ angle_deg = 0
       \/ y_prev > 0 /\ frac > 0 /\ x_prev < impact_x /\ impact_x < x

\* C8: for time_step > 0, max_time > 0 and gravity > 0 the integration loop
\* runs at most max_time / time_step (rounded up) steps, and the correction
\* loop of iterative_aim runs at most max_iters simulations.
C8_StepBound ==
    /\ (Positive(dt) /\ Positive(max_time) /\ g > 0) =>
           steps <= CeilDiv(Ticks(max_time), Ticks(dt))
    /\ pc_aim # "idle" => ncalls <= max_iters

\* C9: with a non-positive speed, time_step, max_time or gravity the call
\* fails before any loop iteration runs and returns no trajectory.
C9_FailFast ==
    ~ValidInput => steps = 0 /\ pc_sim # "returned"

(* ------------------------------------------------------------------------ *)
(* properties of iterative_aim (SpecAim)                                    *)
(* ------------------------------------------------------------------------ *)

AbsMisses == {Abs(history[k].miss) : k \in 1 .. Len(history)}

LoopLeft == pc_aim \in {"post", "done"}

\* C2: for max_iters >= 1 the history holds at most max_iters attempts,
\* numbered 1, 2, ..., n; only its last attempt can have abs(miss) <= tol;
\* the loop is left before max_iters attempts only on such an attempt, and no
\* simulation is started after one.
C2_StopsAtFirstHit ==
    max_iters >= 1 =>
        /\ Len(history) <= max_iters
        /\ \A k \in 1 .. Len(history) : history[k].try = k
        /\ \A k \in 1 .. Len(history) - 1 : Abs(history[k].miss) > tol
        /\ LoopLeft /\ Len(history) < max_iters =>
               Abs(Last(history).miss) <= tol
        /\ history # <<>> /\ Abs(Last(history).miss) <= tol =>
               LoopLeft /\ ncalls = Len(history)

\* C2, its case: the loop left on its second attempt with a third to spare
C2_Witness ==
    /\ max_iters = 3
    /\ pc_aim = "done"
    /\ Len(history) = 2
    /\ Abs(history[1].miss) > tol
    /\ Abs(history[2].miss) <= tol

\* C3: for max_iters >= 1 the returned best_abs_miss is the minimum of
\* abs(miss) over the whole history, and the returned best_angle is the angle
\* of the earliest attempt that attains it.
C3_BestOfHistory ==
    (max_iters >= 1 /\ pc_aim = "done") =>
        /\ ret.history = history
        /\ ret.best_abs_miss \in AbsMisses
        /\ \A m \in AbsMisses : ret.best_abs_miss <= m
        /\ \E k \in 1 .. Len(history) :
              /\ Abs(history[k].miss) = ret.best_abs_miss
              /\ \A j \in 1 .. k - 1 : Abs(history[j].miss) > ret.best_abs_miss
              /\ ret.best_angle = history[k].angle

\* C3, its case: the minimum is attained twice, at different angles, and
\* the earlier attempt is the one returned
C3_Witness ==
    /\ pc_aim = "done"
    /\ \E j, k \in 1 .. Len(history) :
          /\ j < k
          /\ Abs(history[j].miss) = ret.best_abs_miss
          /\ Abs(history[k].miss) = ret.best_abs_miss
          /\ history[j].angle # history[k].angle
          /\ ret.best_angle = history[j].angle

\* C4: the warning is given exactly when the history holds max_iters
\* attempts and the last one's abs(miss) > tol, never before the loop is
\* over and never after a converged attempt; the call then still returns the
\* best attempt instead of failing.
C4_WarningOnlyOnExhaustion ==
    max_iters >= 1 =>
        /\ pc_aim # "raised"
        /\ pc_aim # "done" => ~warned
        /\ pc_aim = "done" =>
              /\ warned <=> (Len(history) = max_iters
                                /\ Abs(Last(history).miss) > tol)
              /\ Abs(Last(history).miss) <= tol => ~warned
              /\ warned => /\ ret.history = history
                           /\ ret.best_abs_miss \in AbsMisses
                           /\ \A m \in AbsMisses : ret.best_abs_miss <= m

\* C4, its case: a run that used up several attempts without converging,
\* warned and returned an attempt that is not the last
C4_Witness ==
    /\ pc_aim = "done" /\ warned
    /\ max_iters >= 2 /\ Len(history) = max_iters
    /\ ret.best_abs_miss < Abs(Last(history).miss)

\* C5: whatever initial_angle, learn_rate and miss are, the angle after an
\* update lies in [0, 85] degrees, so every attempt after the first has its
\* angle in that range; the first attempt uses initial_angle as given.
C5_AngleClamped ==
    /\ \A k \in 2 .. Len(history) :
          history[k].angle >= MinAngle /\ history[k].angle <= MaxAngle
    /\ i >= 1 => angle >= MinAngle /\ angle <= MaxAngle
    /\ history # <<>> => history[1].angle = initial_angle

\* C5, its case: an initial angle above 85 degrees, used as given and then
\* clamped
C5_Witness ==
    /\ Len(history) >= 2
    /\ history[1].angle > MaxAngle
    /\ history[1].angle + Correction(learn_rate, history[1].miss) > MaxAngle
    /\ history[2].angle = MaxAngle

\* C10: for speed > 0 every recorded attempt's impact_x is the last sample
\* of a trajectory that ended on the ground (vertical position exactly 0).
C10_ImpactOnGround ==
    (speed > 0 /\ history # <<>>) => Last(ys) = 0

====
